---- MODULE Spec2Model ----
(***************************************************************************)
(* Model of src/generate-dashboard.js (second, current version of the      *)
(* script, lines 331-819): one run of main(), the GitHub API as the        *)
(* environment.  An action is the code between two suspension points       *)
(* (await) of the single-threaded run.                                     *)
(***************************************************************************)
EXTENDS Integers, Sequences, FiniteSets, TLC

(* ------------------------------------------------------------------ *)
(* Bounds of the model                                                 *)
(* ------------------------------------------------------------------ *)

\* per_page=100 of the upstream listing (lines 543, 558), scaled down
PerPage == 2
\* largest number of repositories the upstream organization has
MaxUpstream == 4
\* largest number of repositories a GraphQL organization answer carries
MaxOrgRepos == 2
\* largest number of names on an ignore list tried by the reconciliation
MaxIgnore == 2

(* ------------------------------------------------------------------ *)
(* Configuration                                                       *)
(* ------------------------------------------------------------------ *)

GITHUB_ORGS == <<"mage-os", "mage-os-lab">>

\* the ignore list main passes (44 names in the source; the ones that
\* the modelled upstream can carry)
missingMirrorsIgnoreList == <<"graphql", "Dom">>

\* the artifact a previous run left at dist/index.html
PreviousArtifact == <<[kind |-> "previous"]>>

NoSection == [kind |-> "none"]

(* ------------------------------------------------------------------ *)
(* Strings                                                             *)
(* ------------------------------------------------------------------ *)

Char(s, i) == SubSeq(s, i, i)

\* String.prototype.startsWith
StartsWith(s, p) == Len(s) >= Len(p) /\ SubSeq(s, 1, Len(p)) = p

\* String.prototype.substring(n): the text after the first n characters
Substring(s, n) == IF n >= Len(s) THEN "" ELSE SubSeq(s, n + 1, Len(s))

LowerCase == "abcdefghijklmnopqrstuvwxyz"
UpperCase == "ABCDEFGHIJKLMNOPQRSTUVWXYZ"
Punctuation == "_-."
Digits == "0123456789"

IsIn(c, s) == \E i \in 1..Len(s) : Char(s, i) = c
PosIn(c, s) == CHOOSE i \in 1..Len(s) : Char(s, i) = c

\* primary collation weight of a character: punctuation < digits < letters,
\* letters without regard to case
PrimaryWeight(c) ==
    IF IsIn(c, Punctuation) THEN PosIn(c, Punctuation)
    ELSE IF IsIn(c, Digits) THEN 10 + PosIn(c, Digits)
    ELSE IF IsIn(c, LowerCase) THEN 30 + PosIn(c, LowerCase)
    ELSE 30 + PosIn(c, UpperCase)

\* tertiary weight: lower case before upper case
CaseWeight(c) == IF IsIn(c, UpperCase) THEN 1 ELSE 0

Weight(level, c) == IF level = "primary" THEN PrimaryWeight(c) ELSE CaseWeight(c)

\* the first difference of weight decides; a proper prefix comes first
RECURSIVE CompareBy(_, _, _, _)
CompareBy(level, a, b, i) ==
    IF i > Len(a) /\ i > Len(b) THEN 0
    ELSE IF i > Len(a) THEN -1
    ELSE IF i > Len(b) THEN 1
    ELSE IF Weight(level, Char(a, i)) < Weight(level, Char(b, i)) THEN -1
    ELSE IF Weight(level, Char(a, i)) > Weight(level, Char(b, i)) THEN 1
    ELSE CompareBy(level, a, b, i + 1)

\* String.prototype.localeCompare: the letters decide, case breaks ties
localeCompare(a, b) ==
    LET p == CompareBy("primary", a, b, 1)
    IN  IF p # 0 THEN p ELSE CompareBy("case", a, b, 1)

(* ------------------------------------------------------------------ *)
(* Arrays                                                              *)
(* ------------------------------------------------------------------ *)

SeqsUpTo(S, n) == UNION {[1..k -> S] : k \in 0..n}

\* insert r after every element that does not sort after it (stable)
RECURSIVE InsertByName(_, _)
InsertByName(sorted, r) ==
    IF sorted = <<>> THEN <<r>>
    ELSE IF localeCompare(Head(sorted).name, r.name) <= 0
         THEN <<Head(sorted)>> \o InsertByName(Tail(sorted), r)
         ELSE <<r>> \o sorted

\* Array.prototype.sort((a, b) => a.name.localeCompare(b.name))
RECURSIVE SortByName(_)
SortByName(s) ==
    IF s = <<>> THEN <<>>
    ELSE InsertByName(SortByName(SubSeq(s, 1, Len(s) - 1)), s[Len(s)])

(* ------------------------------------------------------------------ *)
(* What the GitHub API can answer                                      *)
(* ------------------------------------------------------------------ *)

\* issues.totalCount / pullRequests.totalCount: none, or some
TotalCounts == {0, 2}

OrgRepoNames(org) == IF org = "mage-os" THEN {"mirror-a", "B"} ELSE {"lab"}

OrgRepos(org) ==
    [name : OrgRepoNames(org), isArchived : BOOLEAN,
     issues : TotalCounts, prs : TotalCounts]

DistinctNames(s) == \A i, j \in 1..Len(s) : s[i].name = s[j].name => i = j

\* repository names are unique within an organization
OrgNodeLists(org) == {s \in SeqsUpTo(OrgRepos(org), MaxOrgRepos) : DistinctNames(s)}

\* answer of the GraphQL endpoint: a non-success status, a success status
\* with an error list, or the organization's repositories
OrgAnswers(org) ==
    {[kind |-> "http"], [kind |-> "errors"]}
        \cup {[kind |-> "ok", nodes |-> n] : n \in OrgNodeLists(org)}

\* created_at of a workflow run, as the REST API prints it
RunTimestamps == {"2024-05-06T07:08:09Z", "2023-01-02T03:04:05Z"}

\* answer of the workflow-run lookup: a non-success status, a body that
\* does not parse, a success without runs, a success with the latest run
RunAnswers ==
    {[kind |-> "http"], [kind |-> "throw"], [kind |-> "ok", workflow_runs |-> <<>>]}
        \cup {[kind |-> "ok", workflow_runs |-> <<[created_at |-> t]>>] : t \in RunTimestamps}

\* the repositories the upstream organization may host, in listing order
UpstreamCatalog(i) ==
    [name |-> CASE i % 5 = 1 -> "a" [] i % 5 = 2 -> "graphql" [] i % 5 = 3 -> "B"
                [] i % 5 = 4 -> "zend" [] OTHER -> "Dom",
     archived |-> (i % 4 = 0)]

(* ------------------------------------------------------------------ *)
(* State                                                               *)
(* ------------------------------------------------------------------ *)

VARIABLES
    pc,                     \* where main() is suspended
    exitCode,               \* process exit code (0 unless process.exit(1) ran)
    errorLog,               \* console.error calls, in order
    requests,               \* requests sent to the GitHub API, in order
    upstream,               \* the upstream organization's repositories (server side)
    ignoreList,             \* ignoreList argument of generateMissingMirrorsSection
    orgIdx,                 \* position of the for loop over GITHUB_ORGS
    orgDataMap,             \* entries [org, nodes] in insertion order
    orgSections,
    page, allRepos, hasMoreRepos, magentoRepos,
    unmirroredRepos, missingMirrorsSection,
    sortedRepos,
    lookups,                \* per repository: "unissued", "pending", "settled"
    answers,                \* per repository: the answer its lookup got
    values,                 \* Promise.all's result array, one slot per promise
    settleOrder,            \* the lookups in the order they were answered
    reposWithRuns,
    workflowSection,
    html,
    artifact                \* content of dist/index.html

ctlVars  == <<pc, exitCode, errorLog, requests>>
envVars  == <<upstream, ignoreList>>
orgVars  == <<orgIdx, orgDataMap, orgSections>>
listVars == <<page, allRepos, hasMoreRepos, magentoRepos>>
mirVars  == <<unmirroredRepos, missingMirrorsSection>>
runVars  == <<sortedRepos, lookups, answers, values, settleOrder, reposWithRuns,
              workflowSection>>
outVars  == <<html, artifact>>

vars == <<ctlVars, envVars, orgVars, listVars, mirVars, runVars, outVars>>

\* the values main() and the functions it calls start from
CtlFresh == pc = "fetchOrgs" /\ exitCode = 0 /\ errorLog = <<>> /\ requests = <<>>

OrgFresh == orgIdx = 1 /\ orgDataMap = <<>> /\ orgSections = <<>>

ListFresh == page = 1 /\ allRepos = <<>> /\ hasMoreRepos = TRUE /\ magentoRepos = <<>>

MirFresh == unmirroredRepos = <<>> /\ missingMirrorsSection = NoSection

RunFresh ==
    /\ sortedRepos = <<>>
    /\ lookups = <<>>
    /\ answers = <<>>
    /\ values = <<>>
    /\ settleOrder = <<>>
    /\ reposWithRuns = <<>>
    /\ workflowSection = NoSection

OutFresh == html = <<>> /\ artifact = PreviousArtifact

\* a run of main() against an upstream organization that hosts the first
\* k repositories of the catalogue
Init ==
    /\ CtlFresh /\ OrgFresh /\ ListFresh /\ MirFresh /\ RunFresh /\ OutFresh
    /\ upstream \in {[i \in 1..k |-> UpstreamCatalog(i)] : k \in 0..MaxUpstream}
    /\ ignoreList = missingMirrorsIgnoreList

(* ------------------------------------------------------------------ *)
(* main: the catch block                                               *)
(* ------------------------------------------------------------------ *)

\* catch (error) { console.error(...); process.exit(1); }
CatchAndExit(about) ==
    /\ pc' = "done"
    /\ exitCode' = 1
    /\ errorLog' = Append(errorLog, [msg |-> "Error generating dashboard", about |-> about])

(* ------------------------------------------------------------------ *)
(* main: the loop over the organizations                               *)
(* ------------------------------------------------------------------ *)

NotArchived(repo) == ~repo.isArchived

\* fetchOrgData on a success status: the answer with its archived
\* repositories filtered out
fetchOrgData(answer) ==
    IF answer.kind = "ok"
    THEN [answer EXCEPT !.nodes = SelectSeq(answer.nodes, NotArchived)]
    ELSE answer

HasOrg(map, org) == \E i \in 1..Len(map) : map[i].org = org

\* orgDataMap[orgName] = data
SetOrg(map, org, data) ==
    IF HasOrg(map, org)
    THEN [i \in 1..Len(map) |-> IF map[i].org = org THEN [org |-> org, nodes |-> data.nodes]
                                                       ELSE map[i]]
    ELSE Append(map, [org |-> org, nodes |-> data.nodes])

\* where main goes after one pass of the loop body
AfterOrg(i) == IF i = Len(GITHUB_ORGS) THEN "assemble" ELSE "fetchOrgs"

\* a loop body that catches the failed request and goes on
OrgOutcomeCatching(answer) ==
    IF answer.kind \in {"http", "errors"} THEN "skip" ELSE "keep"

\* a loop body that gives up on an error list
OrgOutcomeAborting(answer) ==
    IF answer.kind \in {"http", "errors"} THEN "throw" ELSE "keep"

\* how one pass of the loop body ends: fetchOrgData throws on a
\* non-success status and nothing in the loop catches it; an answer with
\* an error list is skipped with continue; any other answer is kept
OrgOutcome(answer) ==
    IF answer.kind = "http" THEN "throw"
    ELSE IF fetchOrgData(answer).kind = "errors" THEN "skip"
    ELSE "keep"

\* one pass of the loop body: the request for GITHUB_ORGS[orgIdx] is answered
FetchOrg ==
    /\ pc = "fetchOrgs"
    /\ orgIdx <= Len(GITHUB_ORGS)
    /\ LET orgName == GITHUB_ORGS[orgIdx] IN
       \E answer \in OrgAnswers(orgName) :
         /\ requests' = Append(requests,
                [api |-> "graphql", org |-> orgName, got |-> answer.kind])
         /\ CASE OrgOutcome(answer) = "throw" ->
                   /\ CatchAndExit(orgName)
                   /\ UNCHANGED orgVars
              [] OrgOutcome(answer) = "skip" ->
                   /\ errorLog' = Append(errorLog,
                          [msg |-> "Error fetching data", about |-> orgName])
                   /\ orgIdx' = orgIdx + 1
                   /\ pc' = AfterOrg(orgIdx)
                   /\ UNCHANGED <<exitCode, orgDataMap, orgSections>>
              [] OTHER ->
                   /\ orgDataMap' = SetOrg(orgDataMap, orgName, fetchOrgData(answer))
                   /\ orgIdx' = orgIdx + 1
                   /\ pc' = AfterOrg(orgIdx)
                   /\ UNCHANGED <<exitCode, errorLog, orgSections>>
    /\ UNCHANGED <<envVars, listVars, mirVars, runVars, outVars>>

(* ------------------------------------------------------------------ *)
(* main: the organization sections                                     *)
(* ------------------------------------------------------------------ *)

\* a repository counts as active only with both open issues and open pulls
IsActiveWithBoth(repo) == repo.issues > 0 /\ repo.prs > 0

IsActive(repo) == repo.issues > 0 \/ repo.prs > 0

\* one card: the repository and which of its two tables are shown
RepoCard(repo) ==
    [name |-> repo.name, issuesTable |-> (repo.issues > 0), prsTable |-> (repo.prs > 0)]

\* generateOrgSection: the sections it adds to the page text ('' adds none)
generateOrgSection(orgName, nodes) ==
    LET activeRepos == SelectSeq(nodes, IsActive)
    IN  IF Len(activeRepos) = 0
        THEN <<>>
        ELSE <<[kind |-> "org", org |-> orgName,
                cards |-> [i \in 1..Len(activeRepos) |-> RepoCard(activeRepos[i])]]>>

\* Object.entries(orgDataMap): string keys come in insertion order
ObjectEntries(map) == map

RECURSIVE ConcatOrgSections(_)
ConcatOrgSections(entries) ==
    IF entries = <<>> THEN <<>>
    ELSE generateOrgSection(Head(entries).org, Head(entries).nodes)
            \o ConcatOrgSections(Tail(entries))

\* the steps after the loop without the check for an empty map
AssembleWithoutCheck ==
    /\ pc = "assemble"
    /\ orgSections' = ConcatOrgSections(ObjectEntries(orgDataMap))
    /\ pc' = "listing"
    /\ UNCHANGED <<exitCode, errorLog, requests, orgIdx, orgDataMap>>
    /\ UNCHANGED <<envVars, listVars, mirVars, runVars, outVars>>

\* the output file is written as soon as the organization sections exist
AssembleWritingEarly ==
    /\ pc = "assemble"
    /\ IF Len(orgDataMap) = 0
       THEN /\ CatchAndExit("main")
            /\ UNCHANGED <<orgSections, artifact>>
       ELSE /\ orgSections' = ConcatOrgSections(ObjectEntries(orgDataMap))
            /\ artifact' = orgSections'
            /\ pc' = "listing"
            /\ UNCHANGED <<exitCode, errorLog>>
    /\ UNCHANGED <<requests, orgIdx, orgDataMap, html>>
    /\ UNCHANGED <<envVars, listVars, mirVars, runVars>>

\* after the loop: the check for an empty map, then the organization
\* sections, then the call that starts the upstream listing
Assemble ==
    /\ pc = "assemble"
    /\ IF Len(orgDataMap) = 0
       THEN /\ CatchAndExit("main")
            /\ UNCHANGED orgSections
       ELSE /\ orgSections' = ConcatOrgSections(ObjectEntries(orgDataMap))
            /\ pc' = "listing"
            /\ UNCHANGED <<exitCode, errorLog>>
    /\ UNCHANGED <<requests, orgIdx, orgDataMap>>
    /\ UNCHANGED <<envVars, listVars, mirVars, runVars, outVars>>

(* ------------------------------------------------------------------ *)
(* fetchMagentoRepos                                                   *)
(* ------------------------------------------------------------------ *)

Min(a, b) == IF a < b THEN a ELSE b

\* the records the listing endpoint returns for ?per_page=PerPage&page=p
PageOf(list, p) == SubSeq(list, (p - 1) * PerPage + 1, Min(p * PerPage, Len(list)))

NotArchivedUpstream(repo) == ~repo.archived

\* a loop that also stops after a full page
MorePagesOffByOne(repos, hasMore) == IF Len(repos) <= PerPage THEN FALSE ELSE hasMore

\* hasMoreRepos after a page: a page shorter than the page size is the last
MorePages(repos, hasMore) == IF Len(repos) < PerPage THEN FALSE ELSE hasMore

\* a loop that takes a failed page for the end of the listing and
\* returns what the earlier pages held
FetchPageKeepingPartial ==
    /\ pc = "listing"
    /\ hasMoreRepos
    /\ \E ok \in BOOLEAN :
         LET repos == IF ok THEN PageOf(upstream, page) ELSE <<>>
             more  == ok /\ MorePages(repos, hasMoreRepos)
         IN  /\ requests' = Append(requests,
                    [api |-> "repos", page |-> page, got |-> IF ok THEN "ok" ELSE "http"])
             /\ hasMoreRepos' = more
             /\ allRepos' = allRepos \o repos
             /\ page' = page + 1
             /\ IF more
                THEN UNCHANGED <<pc, magentoRepos>>
                ELSE /\ magentoRepos' = SelectSeq(allRepos', NotArchivedUpstream)
                     /\ pc' = "reconcile"
             /\ errorLog' = IF ok THEN errorLog
                            ELSE Append(errorLog, [msg |-> "Error generating dashboard",
                                                   about |-> "magento"])
             /\ UNCHANGED exitCode
    /\ UNCHANGED <<envVars, orgVars, mirVars, runVars, outVars>>

\* one pass of the while loop; when it was the last one, the return
FetchPage ==
    /\ pc = "listing"
    /\ hasMoreRepos
    /\ \E ok \in BOOLEAN :
         /\ requests' = Append(requests,
                [api |-> "repos", page |-> page, got |-> IF ok THEN "ok" ELSE "http"])
         /\ IF ~ok
            THEN \* the throw leaves fetchMagentoRepos, its caller, and main's try
                 /\ CatchAndExit("magento")
                 /\ UNCHANGED listVars
            ELSE LET repos == PageOf(upstream, page)
                     more  == MorePages(repos, hasMoreRepos)
                 IN  /\ hasMoreRepos' = more
                     /\ allRepos' = allRepos \o repos
                     /\ page' = page + 1
                     /\ IF more
                        THEN UNCHANGED <<pc, magentoRepos>>
                        ELSE /\ magentoRepos' = SelectSeq(allRepos', NotArchivedUpstream)
                             /\ pc' = "reconcile"
                     /\ UNCHANGED <<exitCode, errorLog>>
    /\ UNCHANGED <<envVars, orgVars, mirVars, runVars, outVars>>

(* ------------------------------------------------------------------ *)
(* generateMissingMirrorsSection                                       *)
(* ------------------------------------------------------------------ *)

\* the repositories of every retrieved organization, not of mage-os alone
RECURSIVE AllOrgRepos(_)
AllOrgRepos(map) ==
    IF map = <<>> THEN <<>> ELSE Head(map).nodes \o AllOrgRepos(Tail(map))

\* the repositories of the first retrieved organization stand in when
\* mage-os has no entry
MageOsReposOrFirst(map) ==
    IF HasOrg(map, "mage-os")
    THEN (CHOOSE e \in {map[i] : i \in 1..Len(map)} : e.org = "mage-os").nodes
    ELSE IF Len(map) > 0 THEN map[1].nodes ELSE <<>>

\* orgDataMap['mage-os']?.data?.organization?.repositories?.nodes || []
MageOsRepos(map) ==
    IF HasOrg(map, "mage-os")
    THEN (CHOOSE e \in {map[i] : i \in 1..Len(map)} : e.org = "mage-os").nodes
    ELSE <<>>

\* a list that keeps every entry, also of a key seen before
NewMapKeepingDuplicates(repos) == repos

\* new Map(entries): a key keeps the place of its first entry and the
\* value of its last
RECURSIVE NewMap(_)
NewMap(repos) ==
    IF repos = <<>> THEN <<>>
    ELSE LET front == NewMap(SubSeq(repos, 1, Len(repos) - 1))
             last  == repos[Len(repos)]
         IN  IF \E i \in 1..Len(front) : front[i].name = last.name
             THEN [i \in 1..Len(front) |->
                      IF front[i].name = last.name THEN last ELSE front[i]]
             ELSE Append(front, last)

\* the names behind the first seven characters of every mage-os
\* repository, prefixed or not
MirroredRepoNamesUnfiltered(mageOsRepos) ==
    {Substring(mageOsRepos[i].name, 7) : i \in 1..Len(mageOsRepos)}

\* the names behind the "mirror-" prefix of the mage-os repositories
MirroredRepoNames(mageOsRepos) ==
    {Substring(mageOsRepos[i].name, 7) :
        i \in {j \in 1..Len(mageOsRepos) : StartsWith(mageOsRepos[j].name, "mirror-")}}

SetOf(list) == {list[i] : i \in 1..Len(list)}

\* the scan of the map and the sort that follows it
FindUnmirrored(magento, mageOsRepos, ignore) ==
    LET mirroredRepoNames == MirroredRepoNames(mageOsRepos)
        ignoredRepos      == SetOf(ignore)
        Unmirrored(repo)  == repo.name \notin mirroredRepoNames
                                /\ repo.name \notin ignoredRepos
    IN  SortByName(SelectSeq(NewMap(magento), Unmirrored))

RepoName(repo) == repo.name

\* nothing is rendered when every upstream repository is mirrored
RenderMissingMirrorsOmittingEmpty(unmirrored) ==
    IF Len(unmirrored) = 0
    THEN NoSection
    ELSE [kind |-> "mirrors", allMirrored |-> FALSE,
          rows |-> [i \in 1..Len(unmirrored) |-> unmirrored[i].name]]

\* the section: the fixed message, or the table with one row per repository
RenderMissingMirrors(unmirrored) ==
    IF Len(unmirrored) = 0
    THEN [kind |-> "mirrors", allMirrored |-> TRUE, rows |-> <<>>]
    ELSE [kind |-> "mirrors", allMirrored |-> FALSE,
          rows |-> [i \in 1..Len(unmirrored) |-> RepoName(unmirrored[i])]]

\* the rest of generateMissingMirrorsSection once the listing has returned
Reconcile ==
    /\ pc = "reconcile"
    /\ unmirroredRepos' = FindUnmirrored(magentoRepos, MageOsRepos(orgDataMap), ignoreList)
    /\ missingMirrorsSection' = RenderMissingMirrors(unmirroredRepos')
    /\ pc' = "workflows"
    /\ UNCHANGED <<exitCode, errorLog, requests>>
    /\ UNCHANGED <<envVars, orgVars, listVars, runVars, outVars>>

(* ------------------------------------------------------------------ *)
(* generateWorkflowRunsSection                                         *)
(* ------------------------------------------------------------------ *)

Null == "null"
Unsettled == [kind |-> "unsettled"]
NoAnswer == [kind |-> "none"]

\* new Date(created_at), held as the text toISOString() prints for it
NewDate(created_at) == SubSeq(created_at, 1, 19) \o ".000Z"

\* String.prototype.replace with two one-character texts: the first
\* occurrence only
RECURSIVE ReplaceFirst(_, _, _)
ReplaceFirst(s, old, new) ==
    IF s = "" THEN ""
    ELSE IF Char(s, 1) = old THEN new \o Substring(s, 1)
    ELSE Char(s, 1) \o ReplaceFirst(Substring(s, 1), old, new)

\* lastRunDate.toISOString().replace('T', ' ').substring(0, 19), or '-'
FormatRunDate(lastRunDate) ==
    IF lastRunDate # Null
    THEN SubSeq(ReplaceFirst(lastRunDate, "T", " "), 1, 19)
    ELSE "-"

\* the value one callback of sortedRepos.map returns: {...repo, lastRunDate}
LookupEntry(repo, answer) ==
    [name |-> repo.name, isArchived |-> repo.isArchived,
     issues |-> repo.issues, prs |-> repo.prs,
     lastRunDate |->
        IF answer.kind = "ok" /\ Len(answer.workflow_runs) > 0
        THEN NewDate(answer.workflow_runs[1].created_at)
        ELSE Null]

\* whether the callback ends in its catch block
LookupFailed(answer) == answer.kind \in {"http", "throw"}

\* a result array filled in the order the promises settle
SettleInArrivalOrder(slots, i, entry) ==
    LET k == CHOOSE k \in 1..Len(slots) :
                 slots[k] = Unsettled /\ \A j \in 1..(k - 1) : slots[j] # Unsettled
    IN  [slots EXCEPT ![k] = entry]

\* Promise.all: the value of promise i goes to place i of the result
Settle(slots, i, entry) == [slots EXCEPT ![i] = entry]

WorkflowRow(repo) == [name |-> repo.name, date |-> FormatRunDate(repo.lastRunDate)]

RenderWorkflowRuns(repos) ==
    [kind |-> "workflows", rows |-> [i \in 1..Len(repos) |-> WorkflowRow(repos[i])]]

\* from the call to the point where the callbacks start: the mage-os
\* repositories, filtered and sorted
StartWorkflows ==
    /\ pc = "workflows"
    /\ sortedRepos' = SortByName(SelectSeq(MageOsRepos(orgDataMap), NotArchived))
    /\ lookups' = [i \in 1..Len(sortedRepos') |-> "unissued"]
    /\ answers' = [i \in 1..Len(sortedRepos') |-> NoAnswer]
    /\ values' = [i \in 1..Len(sortedRepos') |-> Unsettled]
    /\ settleOrder' = <<>>
    /\ pc' = IF Len(sortedRepos') = 0 THEN "await" ELSE "issue"
    /\ UNCHANGED <<exitCode, errorLog, requests, reposWithRuns, workflowSection>>
    /\ UNCHANGED <<envVars, orgVars, listVars, mirVars, outVars>>

\* a loop that awaits each lookup before it sends the next request
IssueLookupAwaitingEach ==
    /\ pc \in {"issue", "await"}
    /\ \E i \in 1..Len(lookups) :
         /\ lookups[i] = "unissued"
         /\ \A j \in 1..(i - 1) : lookups[j] = "settled"
         /\ lookups' = [lookups EXCEPT ![i] = "pending"]
         /\ requests' = Append(requests, [api |-> "runs", repo |-> sortedRepos[i].name])
         /\ pc' = "await"
    /\ UNCHANGED <<exitCode, errorLog, sortedRepos, answers, values, settleOrder,
                   reposWithRuns, workflowSection>>
    /\ UNCHANGED <<envVars, orgVars, listVars, mirVars, outVars>>

\* sortedRepos.map runs each callback up to its first await: the request
\* of the next repository is sent
IssueLookup ==
    /\ pc = "issue"
    /\ \E i \in 1..Len(lookups) :
         /\ lookups[i] = "unissued"
         /\ \A j \in 1..(i - 1) : lookups[j] # "unissued"
         /\ lookups' = [lookups EXCEPT ![i] = "pending"]
         /\ requests' = Append(requests, [api |-> "runs", repo |-> sortedRepos[i].name])
         /\ pc' = IF i = Len(lookups) THEN "await" ELSE "issue"
    /\ UNCHANGED <<exitCode, errorLog, sortedRepos, answers, values, settleOrder,
                   reposWithRuns, workflowSection>>
    /\ UNCHANGED <<envVars, orgVars, listVars, mirVars, outVars>>

\* a callback without the try/catch: a failed lookup rejects Promise.all
\* and main's catch block ends the run
CompleteLookupUncaught(i) ==
    /\ pc = "await"
    /\ lookups[i] = "pending"
    /\ \E answer \in RunAnswers :
         /\ answers' = [answers EXCEPT ![i] = answer]
         /\ IF LookupFailed(answer)
            THEN /\ CatchAndExit(sortedRepos[i].name)
                 /\ UNCHANGED values
            ELSE /\ values' = Settle(values, i, LookupEntry(sortedRepos[i], answer))
                 /\ UNCHANGED <<pc, exitCode, errorLog>>
    /\ lookups' = [lookups EXCEPT ![i] = "settled"]
    /\ settleOrder' = Append(settleOrder, i)
    /\ UNCHANGED <<requests, sortedRepos, reposWithRuns, workflowSection>>
    /\ UNCHANGED <<envVars, orgVars, listVars, mirVars, outVars>>

\* the lookup of repository i is answered and its callback runs to its end
CompleteLookup(i) ==
    /\ pc = "await"
    /\ lookups[i] = "pending"
    /\ \E answer \in RunAnswers :
         /\ answers' = [answers EXCEPT ![i] = answer]
         /\ values' = Settle(values, i, LookupEntry(sortedRepos[i], answer))
         /\ errorLog' = IF LookupFailed(answer)
                        THEN Append(errorLog, [msg |-> "Error fetching workflow runs",
                                               about |-> sortedRepos[i].name])
                        ELSE errorLog
    /\ lookups' = [lookups EXCEPT ![i] = "settled"]
    /\ settleOrder' = Append(settleOrder, i)
    /\ UNCHANGED <<pc, exitCode, requests, sortedRepos, reposWithRuns, workflowSection>>
    /\ UNCHANGED <<envVars, orgVars, listVars, mirVars, outVars>>

(* ------------------------------------------------------------------ *)
(* generateHTML and the write                                          *)
(* ------------------------------------------------------------------ *)

\* a template with the last two texts exchanged
generateHTMLWorkflowFirst(orgs, missingMirrors, workflow) ==
    orgs \o <<workflow>> \o <<missingMirrors>>

\* the three texts in the order the template places them
generateHTML(orgs, missingMirrors, workflow) == orgs \o <<missingMirrors>> \o <<workflow>>

AllSettled == \A i \in 1..Len(lookups) : lookups[i] = "settled"

\* Promise.all resolves: the section, the page, and the call of mkdir
FanIn ==
    /\ pc = "await"
    /\ AllSettled
    /\ reposWithRuns' = values
    /\ workflowSection' = RenderWorkflowRuns(reposWithRuns')
    /\ html' = generateHTML(orgSections, missingMirrorsSection, workflowSection')
    /\ pc' = "mkdir"
    /\ UNCHANGED <<exitCode, errorLog, requests, sortedRepos, lookups, answers, values,
                   settleOrder, artifact>>
    /\ UNCHANGED <<envVars, orgVars, listVars, mirVars>>

\* await mkdir('dist', { recursive: true })
MakeDir ==
    /\ pc = "mkdir"
    /\ \E ok \in BOOLEAN :
         IF ok
         THEN /\ pc' = "write"
              /\ UNCHANGED <<exitCode, errorLog>>
         ELSE CatchAndExit("mkdir")
    /\ UNCHANGED <<requests, envVars, orgVars, listVars, mirVars, runVars, outVars>>

\* await writeFile('dist/index.html', html); a write that fails leaves
\* the old file, or what it had written of the new one
WriteFile ==
    /\ pc = "write"
    /\ \E ok \in BOOLEAN :
         IF ok
         THEN /\ artifact' = html
              /\ pc' = "done"
              /\ UNCHANGED <<exitCode, errorLog>>
         ELSE /\ CatchAndExit("writeFile")
              /\ artifact' \in {artifact, <<>>}
    /\ UNCHANGED <<requests, html, envVars, orgVars, listVars, mirVars, runVars>>

Next ==
    \/ FetchOrg
    \/ Assemble
    \/ FetchPage
    \/ Reconcile
    \/ StartWorkflows
    \/ IssueLookup
    \/ \E i \in 1..Len(lookups) : CompleteLookup(i)
    \/ FanIn
    \/ MakeDir
    \/ WriteFile

Spec == Init /\ [][Next]_vars

(* ------------------------------------------------------------------ *)
(* fetchMagentoRepos alone, over every upstream listing                *)
(* ------------------------------------------------------------------ *)

UpstreamRecords == [name : {"a", "B"}, archived : BOOLEAN]

GraphqlRequests ==
    [i \in 1..Len(GITHUB_ORGS) |-> [api |-> "graphql", org |-> GITHUB_ORGS[i], got |-> "ok"]]

PlainRepo(n) == [name |-> n, isArchived |-> FALSE, issues |-> 0, prs |-> 0]

\* main() where generateMissingMirrorsSection calls fetchMagentoRepos,
\* both organizations retrieved without repositories
InitListing ==
    /\ pc = "listing" /\ exitCode = 0 /\ errorLog = <<>>
    /\ requests = GraphqlRequests
    /\ orgIdx = Len(GITHUB_ORGS) + 1
    /\ orgDataMap = [i \in 1..Len(GITHUB_ORGS) |-> [org |-> GITHUB_ORGS[i], nodes |-> <<>>]]
    /\ orgSections = <<>>
    /\ ListFresh /\ MirFresh /\ RunFresh /\ OutFresh
    /\ upstream \in SeqsUpTo(UpstreamRecords, MaxUpstream)
    /\ ignoreList = missingMirrorsIgnoreList

SpecListing == InitListing /\ [][FetchPage]_vars

(* ------------------------------------------------------------------ *)
(* The reconciliation alone, over every input                          *)
(* ------------------------------------------------------------------ *)

ReconcileUpstreamNames == {"a", "A", "B"}
ReconcileMirrorNames == {"mirror-a", "a", "mirror-B", "Mirror-A"}
ReconcileIgnoreNames == {"A", "B"}

PlainUpstream(n) == [name |-> n, archived |-> FALSE]

PageRequests(n) == [p \in 1..n |-> [api |-> "repos", page |-> p, got |-> "ok"]]

\* main() where fetchMagentoRepos has returned: any listing of
\* non-archived repositories, mage-os retrieved with any repositories or
\* skipped, any ignore list
InitReconcile ==
    /\ pc = "reconcile" /\ exitCode = 0
    /\ orgIdx = Len(GITHUB_ORGS) + 1
    /\ orgSections = <<>>
    /\ MirFresh /\ RunFresh /\ OutFresh
    /\ \E names \in SeqsUpTo(ReconcileUpstreamNames, MaxUpstream) :
         /\ upstream = [i \in 1..Len(names) |-> PlainUpstream(names[i])]
         /\ allRepos = upstream
         /\ magentoRepos = upstream
         /\ page = (Len(names) \div PerPage) + 2
         /\ hasMoreRepos = FALSE
    /\ \E mageOs \in BOOLEAN :
         \E names \in {s \in SeqsUpTo(ReconcileMirrorNames, MaxOrgRepos) :
                          \A i, j \in 1..Len(s) : s[i] = s[j] => i = j} :
           /\ mageOs \/ names = <<>>
           /\ orgDataMap =
                 (IF mageOs
                  THEN <<[org |-> "mage-os",
                          nodes |-> [i \in 1..Len(names) |-> PlainRepo(names[i])]]>>
                  ELSE <<>>) \o <<[org |-> "mage-os-lab", nodes |-> <<>>]>>
           /\ errorLog = IF mageOs THEN <<>>
                         ELSE <<[msg |-> "Error fetching data", about |-> "mage-os"]>>
    /\ requests = [GraphqlRequests EXCEPT ![1].got =
                       IF HasOrg(orgDataMap, "mage-os") THEN "ok" ELSE "errors"]
                       \o PageRequests(page - 1)
    /\ ignoreList \in SeqsUpTo(ReconcileIgnoreNames, MaxIgnore)

SpecReconcile == InitReconcile /\ [][Reconcile]_vars

(* ------------------------------------------------------------------ *)
(* Properties                                                          *)
(* ------------------------------------------------------------------ *)

Names(list) == {list[i].name : i \in 1..Len(list)}

\* generateMissingMirrorsSection has built its section
Reconciled == missingMirrorsSection # NoSection

\* C1: the reconciliation yields exactly the upstream repositories whose
\* name n is not on the ignore list and for which no mage-os repository
\* is named "mirror-" + n; a mage-os repository without the prefix
\* excludes nothing.
C1_ExactlyTheUnmirrored ==
    Reconciled =>
        /\ Names(unmirroredRepos) =
              {n \in Names(magentoRepos) :
                  /\ n \notin SetOf(ignoreList)
                  /\ ("mirror-" \o n) \notin Names(MageOsRepos(orgDataMap))}
        /\ \A i \in 1..Len(unmirroredRepos) : unmirroredRepos[i] \in SetOf(magentoRepos)

\* one upstream repository mirrored, one ignored, one reported although a
\* mage-os repository without the prefix carries its very name
C1_Witness ==
    /\ Reconciled
    /\ \E n \in Names(magentoRepos) :
         ("mirror-" \o n) \in Names(MageOsRepos(orgDataMap)) /\ n \notin SetOf(ignoreList)
    /\ \E n \in Names(magentoRepos) :
         n \in SetOf(ignoreList) /\ ("mirror-" \o n) \notin Names(MageOsRepos(orgDataMap))
    /\ \E n \in Names(unmirroredRepos) : n \in Names(MageOsRepos(orgDataMap))

\* C2: the unmirrored repositories are in ascending order of name and no
\* name comes twice, also when the upstream listing repeats a name.
C2_SortedWithoutDuplicates ==
    Reconciled =>
        \A i, j \in 1..Len(unmirroredRepos) :
            i < j =>
                /\ unmirroredRepos[i].name # unmirroredRepos[j].name
                /\ localeCompare(unmirroredRepos[i].name, unmirroredRepos[j].name) < 0

\* the listing repeats a reported name and is not in order
C2_Witness ==
    /\ Reconciled
    /\ Len(unmirroredRepos) >= 2
    /\ \E i, j \in 1..Len(magentoRepos) :
         i < j /\ magentoRepos[i].name = magentoRepos[j].name
               /\ magentoRepos[i].name \in Names(unmirroredRepos)
    /\ \E i, j \in 1..Len(magentoRepos) :
         i < j /\ localeCompare(magentoRepos[i].name, magentoRepos[j].name) > 0
               /\ {magentoRepos[i].name, magentoRepos[j].name} \subseteq Names(unmirroredRepos)

\* the repository an entry of the freshness result was made from
RepoOf(entry) ==
    [name |-> entry.name, isArchived |-> entry.isArchived,
     issues |-> entry.issues, prs |-> entry.prs]

\* generateWorkflowRunsSection has returned
FannedIn == workflowSection # NoSection

Failed(i) == answers[i] # NoAnswer /\ LookupFailed(answers[i])

\* every filled place of the result holds the entry of its own repository
C3_EntryPerRepository ==
    /\ Len(values) = Len(sortedRepos)
    /\ \A i \in 1..Len(values) :
         values[i] # Unsettled => RepoOf(values[i]) = sortedRepos[i]
    /\ FannedIn =>
         /\ Len(reposWithRuns) = Len(sortedRepos)
         /\ \A i \in 1..Len(reposWithRuns) : RepoOf(reposWithRuns[i]) = sortedRepos[i]

\* a place of the result changes only in the step that answers its lookup
C3_OwnSlotOnly ==
    \A i \in 1..Len(values) :
        (Len(values') = Len(values) /\ values'[i] # values[i])
            => /\ settleOrder' = Append(settleOrder, i)
               /\ \A j \in 1..Len(values) : j # i => values'[j] = values[j]

\* C3: whatever the order in which the lookups are answered, and whether
\* they succeed or fail, the freshness result has one entry per repository
\* of the sorted input, entry i made from repository i, and a lookup
\* changes no entry but its own.
C3_OneSlotPerRepository == [] C3_EntryPerRepository /\ [][C3_OwnSlotOnly]_vars

\* the lookups answered in the reverse of their order, one of them failing
C3_Witness ==
    /\ FannedIn
    /\ settleOrder = <<2, 1>>
    /\ Failed(2) /\ ~Failed(1)
    /\ reposWithRuns[1].lastRunDate # Null

\* the text a row shows for an answer: date and time of the latest run
ExpectedDate(answer) ==
    IF answer.kind = "ok" /\ answer.workflow_runs # <<>>
    THEN LET t == answer.workflow_runs[1].created_at
         IN  SubSeq(t, 1, 10) \o " " \o SubSeq(t, 12, 19)
    ELSE "-"

LastLogged == errorLog[Len(errorLog)]

\* C4: a failed lookup leaves a null last-run date, shown as "-", for its
\* own repository and is logged; every row shows what its own answer
\* says, whatever the other lookups did; the failed lookup settles like
\* the others, so the batch completes, and the failure never ends the run.
C4_FailedLookupIsUnknown ==
    /\ \A i \in 1..Len(answers) :
         /\ Failed(i) =>
              /\ lookups[i] = "settled"
              /\ values[i] # Unsettled
              /\ values[i].lastRunDate = Null
              /\ \E k \in 1..Len(errorLog) :
                   errorLog[k] = [msg |-> "Error fetching workflow runs",
                                  about |-> sortedRepos[i].name]
         /\ (FannedIn /\ answers[i] # NoAnswer) =>
              workflowSection.rows[i] =
                  [name |-> sortedRepos[i].name, date |-> ExpectedDate(answers[i])]
    /\ (pc = "done" /\ exitCode # 0 /\ \E i \in 1..Len(answers) : Failed(i))
          => LastLogged.about \in {"mkdir", "writeFile"}

\* a run that ends well although one lookup failed, next to one that
\* found a run
C4_Witness ==
    /\ pc = "done" /\ exitCode = 0
    /\ \E i, j \in 1..Len(answers) :
         /\ Failed(i) /\ artifact[Len(artifact)].rows[i].date = "-"
         /\ ~Failed(j) /\ artifact[Len(artifact)].rows[j].date = "2024-05-06 07:08:09"

\* the requests sent so far to one API
RequestsTo(api) == SelectSeq(requests, LAMBDA r : r.api = api)

Logged(msg, about) == \E k \in 1..Len(errorLog) : errorLog[k] = [msg |-> msg, about |-> about]

Orgs == SetOf(GITHUB_ORGS)

\* the organization after the k-th one is fetched: its request is sent,
\* or the loop stands right before it
NextOrgFetched(k) ==
    k < Len(GITHUB_ORGS) =>
        \/ /\ Len(requests) > k
           /\ requests[k + 1].api = "graphql"
           /\ requests[k + 1].org = GITHUB_ORGS[k + 1]
        \/ pc = "fetchOrgs" /\ orgIdx = k + 1

\* a run that ended with exit code 1 although an organization was
\* retrieved ended for a reason that is no organization's fetch
ExitNotByOrg ==
    (pc = "done" /\ exitCode # 0 /\ Len(orgDataMap) > 0) => LastLogged.about \notin Orgs

\* the artifact holds the page this run made
Written == html # <<>> /\ artifact = html

HasOrgSection(doc, org) ==
    \E i \in 1..Len(doc) : doc[i].kind = "org" /\ doc[i].org = org

\* C6: an organization whose answer carries an error list gets no entry
\* in the organization data map and no section in the report, the
\* organizations after it are still fetched, and the run goes on to the
\* assembly when an organization was retrieved.
C6_ErrorListSkipsTheOrganization ==
    \A k \in 1..Len(requests) :
        (requests[k].api = "graphql" /\ requests[k].got = "errors") =>
            /\ ~HasOrg(orgDataMap, requests[k].org)
            /\ ~HasOrgSection(orgSections, requests[k].org)
            /\ ~HasOrgSection(html, requests[k].org)
            /\ ~HasOrgSection(artifact, requests[k].org)
            /\ NextOrgFetched(k)
            /\ (pc = "done" /\ Len(orgDataMap) > 0) => Len(RequestsTo("repos")) > 0

\* mage-os is skipped and the report is written with the section of the
\* other organization
C6_Witness ==
    /\ Len(requests) > 0
    /\ requests[1] = [api |-> "graphql", org |-> "mage-os", got |-> "errors"]
    /\ pc = "done" /\ exitCode = 0 /\ Written
    /\ HasOrgSection(artifact, "mage-os-lab")

\* C7: exit code 0 only with the artifact written; with no organization
\* retrieved the run ends with a non-zero exit code, writes nothing and
\* sends neither the upstream listing nor a workflow-run lookup; a
\* failure caught by main ends the run with a non-zero exit code.
C7_ExitZeroOnlyWhenWritten ==
    /\ (pc = "done" /\ exitCode = 0) => Written
    /\ pc \notin {"fetchOrgs", "assemble", "done"} => Len(orgDataMap) > 0
    /\ (pc = "done" /\ Len(orgDataMap) = 0) =>
          /\ exitCode # 0
          /\ artifact = PreviousArtifact
          /\ RequestsTo("repos") = <<>> /\ RequestsTo("runs") = <<>>
    /\ (\E a \in Orgs \cup {"main", "magento", "mkdir", "writeFile"} :
            Logged("Error generating dashboard", a))
          => pc = "done" /\ exitCode # 0

\* every organization answered with an error list
C7_Witness ==
    /\ pc = "done" /\ exitCode = 1
    /\ Len(requests) = Len(GITHUB_ORGS)
    /\ \A k \in 1..Len(requests) : requests[k].got = "errors"
    /\ LastLogged.about = "main"

\* C8: fetchMagentoRepos asks for the pages 1, 2, 3, ... in order, stops
\* after the first page shorter than the page size and returns the
\* non-archived records of the whole listing in listing order; the number
\* of pages asked for is bounded by the size of the listing, one empty
\* page included when the size is a multiple of the page size.
C8_PagesInOrderUntilShortPage ==
    LET pages == RequestsTo("repos") IN
    /\ \A p \in 1..Len(pages) : pages[p].page = p
    /\ \A p \in 1..(Len(pages) - 1) : pages[p].got = "ok" /\ Len(PageOf(upstream, p)) = PerPage
    /\ Len(pages) <= (Len(upstream) \div PerPage) + 1
    /\ pc = "listing" => hasMoreRepos /\ page = Len(pages) + 1
    /\ pc = "reconcile" =>
          /\ Len(pages) = (Len(upstream) \div PerPage) + 1
          /\ Len(PageOf(upstream, Len(pages))) < PerPage
          /\ allRepos = upstream
          /\ magentoRepos = SelectSeq(upstream, LAMBDA r : ~r.archived)

\* a listing of exactly two full pages, an archived record among them:
\* the third, empty page ends the loop
C8_Witness ==
    /\ pc = "reconcile"
    /\ Len(upstream) = 2 * PerPage
    /\ Len(RequestsTo("repos")) = 3
    /\ Len(magentoRepos) < Len(upstream)
    /\ Len(magentoRepos) > PerPage

PageFailed == \E k \in 1..Len(requests) : requests[k].api = "repos" /\ requests[k].got = "http"

\* C9: a page that answers with a non-success status ends the listing
\* and the run: no further page is asked for, no unmirrored-repositories
\* section is built from the earlier pages, and no report is written.
C9_FailedPageAbortsTheListing ==
    PageFailed =>
        /\ requests[Len(requests)].api = "repos" /\ requests[Len(requests)].got = "http"
        /\ pc = "done" /\ exitCode = 1
        /\ magentoRepos = <<>> /\ unmirroredRepos = <<>>
        /\ missingMirrorsSection = NoSection
        /\ html = <<>>
        /\ artifact = PreviousArtifact

\* the second page fails after the first one delivered records that
\* would have been reported
C9_Witness ==
    /\ PageFailed
    /\ Len(RequestsTo("repos")) = 2
    /\ \E i \in 1..Len(allRepos) :
         /\ ~allRepos[i].archived
         /\ allRepos[i].name \notin SetOf(ignoreList)
         /\ ("mirror-" \o allRepos[i].name) \notin Names(MageOsRepos(orgDataMap))

OrgIndex(org) == CHOOSE i \in 1..Len(GITHUB_ORGS) : GITHUB_ORGS[i] = org

\* the sections of a page: organizations in configured order, then the
\* unmirrored repositories, then the workflow runs
InFixedOrder(doc) ==
    LET n == Len(doc) IN
    /\ n >= 2
    /\ doc[n].kind = "workflows"
    /\ doc[n - 1].kind = "mirrors"
    /\ \A i \in 1..(n - 2) : doc[i].kind = "org"
    /\ \A i, j \in 1..(n - 2) : i < j => OrgIndex(doc[i].org) < OrgIndex(doc[j].org)

\* C10: in every written report the organization sections come first, in
\* the order of the configured organization list, also when an
\* organization was skipped, then the unmirrored-repositories section,
\* then the workflow-freshness section.
C10_SectionsInFixedOrder ==
    /\ html # <<>> => InFixedOrder(html)
    /\ (pc = "done" /\ exitCode = 0) => InFixedOrder(artifact)

\* a written report with a section for each of the two organizations
C10_Witness ==
    /\ pc = "done" /\ exitCode = 0
    /\ Len(artifact) = Len(GITHUB_ORGS) + 2
    /\ artifact[1].org = GITHUB_ORGS[1] /\ artifact[2].org = GITHUB_ORGS[2]

(* ------------------------------------------------------------------ *)
(* organization sections                                               *)
(* ------------------------------------------------------------------ *)

\* the organization sections have been built from the retrieved data
Assembled ==
    /\ pc \notin {"fetchOrgs", "assemble"}
    /\ \A o \in Orgs \cup {"main"} : ~Logged("Error generating dashboard", o)

\* the sections of a page that belong to the organization
SectionsOf(doc, org) == SelectSeq(doc, LAMBDA s : s.kind = "org" /\ s.org = org)

\* the positions in a list of repositories that have something open
OpenPositions(nodes) ==
    {i \in 1..Len(nodes) : nodes[i].issues > 0 \/ nodes[i].prs > 0}

\* the cards show the repositories with something open, each once, in
\* the order of the list
CardsMatch(cards, nodes) ==
    /\ Len(cards) = Cardinality(OpenPositions(nodes))
    /\ {cards[k].name : k \in 1..Len(cards)}
          = {nodes[i].name : i \in OpenPositions(nodes)}
    /\ \A k \in 1..Len(cards) : \E i \in OpenPositions(nodes) :
          /\ cards[k].name = nodes[i].name
          /\ cards[k].issuesTable = (nodes[i].issues > 0)
          /\ cards[k].prsTable = (nodes[i].prs > 0)
    /\ \A k, l \in 1..Len(cards) : \A i, j \in 1..Len(nodes) :
          (k < l /\ cards[k].name = nodes[i].name /\ cards[l].name = nodes[j].name)
             => i < j

\* C11: a section is emitted for an organization exactly when one of its
\* non-archived repositories has a positive open-issue or open-pull-request
\* count; the section has a card for exactly those repositories, and a
\* repository with zero of both (or an archived one) never gets a card.
C11_SectionExactlyForActiveRepos ==
    Assembled =>
        \A e \in 1..Len(orgDataMap) :
            LET nodes == orgDataMap[e].nodes
                secs  == SectionsOf(orgSections, orgDataMap[e].org)
            IN  /\ \A i \in 1..Len(nodes) : ~nodes[i].isArchived
                /\ Len(secs) <= 1
                /\ (Len(secs) = 1) <=> (OpenPositions(nodes) # {})
                /\ Len(secs) = 1 => CardsMatch(secs[1].cards, nodes)

\* an organization with a repository that has only open pull requests and
\* one with nothing open: one section, with a card for the first only
C11_Witness ==
    /\ Assembled
    /\ Len(orgDataMap[1].nodes) = 2
    /\ orgDataMap[1].nodes[1].issues = 0 /\ orgDataMap[1].nodes[1].prs = 0
    /\ orgDataMap[1].nodes[2].issues = 0 /\ orgDataMap[1].nodes[2].prs > 0
    /\ Len(SectionsOf(orgSections, orgDataMap[1].org)) = 1
    /\ Len(SectionsOf(orgSections, orgDataMap[1].org)[1].cards) = 1

(* ------------------------------------------------------------------ *)
(* the unmirrored-repositories section of the report                   *)
(* ------------------------------------------------------------------ *)

\* the retrieved repositories of the primary organization, none when it
\* was not retrieved
PrimaryNodes ==
    IF \E e \in 1..Len(orgDataMap) : orgDataMap[e].org = "mage-os"
    THEN orgDataMap[CHOOSE e \in 1..Len(orgDataMap) : orgDataMap[e].org = "mage-os"].nodes
    ELSE <<>>

\* the listed upstream names that are neither ignored nor mirrored
UnmirroredNames ==
    {n \in Names(magentoRepos) :
        /\ n \notin SetOf(ignoreList)
        /\ ("mirror-" \o n) \notin Names(PrimaryNodes)}

MirrorSections(doc) == SelectSeq(doc, LAMBDA s : s.kind = "mirrors")

\* generateMissingMirrorsSection has returned
PastReconcile ==
    \/ pc \in {"workflows", "issue", "await", "mkdir", "write"}
    \/ pc = "done" /\ html # <<>>

\* the run ended with the report written
ReportWritten == pc = "done" /\ exitCode = 0

\* C12: every written report contains the unmirrored-repositories section;
\* it is the table, one row per unmirrored repository, when the result is
\* non-empty, and the fixed "all mirrored" message with no table exactly
\* when the result is empty (empty upstream list, or every upstream
\* repository ignored or mirrored).
C12_MirrorsSectionAlwaysRendered ==
    /\ PastReconcile =>
          /\ missingMirrorsSection.kind = "mirrors"
          /\ missingMirrorsSection.allMirrored <=> (UnmirroredNames = {})
          /\ missingMirrorsSection.allMirrored => missingMirrorsSection.rows = <<>>
          /\ Len(missingMirrorsSection.rows) = Cardinality(UnmirroredNames)
          /\ SetOf(missingMirrorsSection.rows) = UnmirroredNames
    /\ ReportWritten =>
          /\ Len(MirrorSections(artifact)) = 1
          /\ MirrorSections(artifact)[1] = missingMirrorsSection

\* a written report with the message although the upstream listing has
\* repositories: each of them is mirrored or ignored
C12_Witness ==
    /\ ReportWritten
    /\ Len(magentoRepos) >= 2
    /\ Len(MirrorSections(artifact)) = 1
    /\ MirrorSections(artifact)[1].allMirrored
    /\ MirrorSections(artifact)[1].rows = <<>>

(* ------------------------------------------------------------------ *)
(* sections without rows                                               *)
(* ------------------------------------------------------------------ *)

WorkflowSections(doc) == SelectSeq(doc, LAMBDA s : s.kind = "workflows")

\* C13: every section of a written report other than the unmirrored
\* section is left out when it has no rows; the workflow-freshness section
\* is absent when the primary organization has no non-archived
\* repositories or was not retrieved.
C13_EmptySectionsAreOmitted ==
    ReportWritten =>
        /\ \A k \in 1..Len(artifact) :
              /\ artifact[k].kind = "org" => artifact[k].cards # <<>>
              /\ artifact[k].kind = "workflows" => artifact[k].rows # <<>>
        /\ PrimaryNodes = <<>> => WorkflowSections(artifact) = <<>>

(* ------------------------------------------------------------------ *)
(* the rows of the workflow-runs table                                 *)
(* ------------------------------------------------------------------ *)

\* the names of the repositories retrieved for another organization
OtherOrgNames ==
    UNION {Names(orgDataMap[e].nodes) :
              e \in {k \in 1..Len(orgDataMap) : orgDataMap[k].org # "mage-os"}}

\* C14: the workflow-freshness section has exactly one row for each
\* non-archived repository of mage-os and none for a repository of another
\* organization; the rows ascend by name; a row shows the time of the
\* latest run when its lookup returned a run and the "-" marker when it
\* returned none or failed; lookups go to mage-os repositories only.
C14_RowPerPrimaryRepository ==
    /\ \A k \in 1..Len(RequestsTo("runs")) :
          /\ RequestsTo("runs")[k].repo \in Names(PrimaryNodes)
          /\ \A l \in 1..Len(RequestsTo("runs")) :
                k # l => RequestsTo("runs")[k].repo # RequestsTo("runs")[l].repo
    /\ FannedIn =>
          LET rows == workflowSection.rows IN
          /\ \A i \in 1..Len(PrimaryNodes) : ~PrimaryNodes[i].isArchived
          /\ Len(rows) = Len(PrimaryNodes)
          /\ {rows[k].name : k \in 1..Len(rows)} = Names(PrimaryNodes)
          /\ \A k \in 1..Len(rows) : rows[k].name \notin (OtherOrgNames \ Names(PrimaryNodes))
          /\ \A k, l \in 1..Len(rows) :
                k < l => localeCompare(rows[k].name, rows[l].name) < 0
          /\ Len(RequestsTo("runs")) = Len(rows)
          /\ \A k \in 1..Len(rows) : \E i \in 1..Len(sortedRepos) :
                /\ sortedRepos[i].name = rows[k].name
                /\ rows[k].date = ExpectedDate(answers[i])
                /\ (answers[i].kind = "ok" /\ Len(answers[i].workflow_runs) > 0)
                      <=> rows[k].date # "-"

\* mage-os retrieved with two repositories in descending order and
\* mage-os-lab with one: two rows, ascending, the first with the marker
\* after a lookup without runs, the second with the time of its run
C14_Witness ==
    /\ FannedIn
    /\ Len(PrimaryNodes) = 2
    /\ localeCompare(PrimaryNodes[1].name, PrimaryNodes[2].name) > 0
    /\ OtherOrgNames # {}
    /\ Len(workflowSection.rows) = 2
    /\ workflowSection.rows[1].name = PrimaryNodes[2].name
    /\ workflowSection.rows[1].date = "-"
    /\ workflowSection.rows[2].date = "2024-05-06 07:08:09"
    /\ answers[1] = [kind |-> "ok", workflow_runs |-> <<>>]

(* ------------------------------------------------------------------ *)
(* fan-out and fan-in of the lookups                                   *)
(* ------------------------------------------------------------------ *)

Outstanding == {i \in 1..Len(lookups) : lookups[i] = "pending"}

Unissued == {i \in 1..Len(lookups) : lookups[i] = "unissued"}

\* no answer is taken while a request is still to be sent
IssuedBeforeAwaited ==
    /\ pc = "await" => Unissued = {}
    /\ (\E i \in 1..Len(lookups) : lookups[i] = "settled") => Unissued = {}
    /\ Len(settleOrder) > 0 => Len(RequestsTo("runs")) = Len(sortedRepos)

\* the section exists only with every lookup resolved
ReturnedAfterAll ==
    FannedIn =>
        /\ Outstanding = {} /\ Unissued = {}
        /\ Len(settleOrder) = Len(lookups)
        /\ \A i \in 1..Len(lookups) : answers[i] # NoAnswer

\* the step that returns the section is taken with nothing outstanding
ReturnStep ==
    workflowSection' # workflowSection =>
        /\ Outstanding = {} /\ Unissued = {}
        /\ \A i \in 1..Len(lookups) : lookups[i] = "settled"

\* C15: every lookup is issued before any lookup is waited on (none waits
\* for an earlier one to complete), and generateWorkflowRunsSection
\* returns only after every issued lookup has resolved; it never returns
\* while a lookup is outstanding.
C15_FanOutThenFanIn ==
    /\ [](IssuedBeforeAwaited /\ ReturnedAfterAll)
    /\ [][ReturnStep]_vars

\* both requests are out and neither is answered yet
C15_Witness ==
    /\ pc = "await"
    /\ Len(lookups) = 2
    /\ Outstanding = {1, 2}
    /\ Len(RequestsTo("runs")) = 2
    /\ settleOrder = <<>>
    /\ ~FannedIn

(* ------------------------------------------------------------------ *)
(* the write of dist/index.html                                        *)
(* ------------------------------------------------------------------ *)

\* the run has ended in main's catch block
RunFailed == \E k \in 1..Len(errorLog) : errorLog[k].msg = "Error generating dashboard"

\* the failure came before the call of writeFile
FailedBeforeWrite == RunFailed /\ ~Logged("Error generating dashboard", "writeFile")

\* every earlier part of main has finished
AllPartsFinished ==
    /\ Len(RequestsTo("graphql")) = Len(GITHUB_ORGS)
    /\ Len(orgDataMap) > 0
    /\ ~hasMoreRepos
    /\ Reconciled
    /\ FannedIn /\ Outstanding = {} /\ Unissued = {}
    /\ html = generateHTML(orgSections, missingMirrorsSection, workflowSection)

\* the file changes only in the step that ends the run, with all the rest done
WriteIsLast ==
    /\ artifact' # artifact => (pc = "write" /\ pc' = "done" /\ AllPartsFinished)
    /\ pc = "done" => (pc' = "done" /\ artifact' = artifact)

\* C16: the write of the artifact is the last step of a run and comes
\* after every organization fetch, the upstream listing, all lookups and
\* the assembly of the page; a run that fails before that step leaves the
\* previous dist/index.html as it was and exits non-zero, so not every run
\* overwrites the artifact.
C16_WrittenLastOrNotAtAll ==
    /\ [][WriteIsLast]_vars
    /\ [](pc # "done" => (artifact = PreviousArtifact /\ exitCode = 0 /\ ~RunFailed))
    /\ [](RunFailed => (pc = "done" /\ exitCode # 0))
    /\ [](FailedBeforeWrite => artifact = PreviousArtifact)

\* the page was assembled, mkdir failed: the old file is still there
C16_Witness ==
    /\ pc = "done" /\ exitCode = 1
    /\ Logged("Error generating dashboard", "mkdir")
    /\ html # <<>> /\ html # PreviousArtifact
    /\ artifact = PreviousArtifact

(* ------------------------------------------------------------------ *)
(* a run without the primary organization                              *)
(* ------------------------------------------------------------------ *)

\* the answer for mage-os carried an error list
PrimarySkipped ==
    \E k \in 1..Len(requests) :
        /\ requests[k].api = "graphql"
        /\ requests[k].org = "mage-os"
        /\ requests[k].got = "errors"

\* an organization other than mage-os has an entry in the map
OtherRetrieved == \E e \in 1..Len(orgDataMap) : orgDataMap[e].org # "mage-os"

\* the listed upstream names that are not on the ignore list
NotIgnoredNames == {n \in Names(magentoRepos) : n \notin SetOf(ignoreList)}

\* C17: when mage-os is skipped for GraphQL errors while another
\* organization is retrieved, the skip does not fail the run: it goes on,
\* and the report it writes with exit code 0 lists every upstream
\* repository of the listing that is not on the ignore list as unmirrored
\* (nothing counts as mirrored) and has a workflow table with zero rows;
\* no workflow lookup is issued.
C17_RunWithoutPrimaryOrganization ==
    (PrimarySkipped /\ OtherRetrieved) =>
        /\ \A e \in 1..Len(orgDataMap) : orgDataMap[e].org # "mage-os"
        /\ (pc = "done" /\ exitCode # 0)
              => LastLogged.about \in {"magento", "mkdir", "writeFile"}
        /\ RequestsTo("runs") = <<>>
        /\ sortedRepos = <<>> /\ lookups = <<>>
        /\ PastReconcile =>
              /\ SetOf(missingMirrorsSection.rows) = NotIgnoredNames
              /\ Len(missingMirrorsSection.rows) = Cardinality(NotIgnoredNames)
        /\ FannedIn => workflowSection = [kind |-> "workflows", rows |-> <<>>]
        /\ ReportWritten =>
              /\ Len(MirrorSections(artifact)) = 1
              /\ SetOf(MirrorSections(artifact)[1].rows) = NotIgnoredNames
              /\ WorkflowSections(artifact) = <<[kind |-> "workflows", rows |-> <<>>]>>

\* mage-os skipped, mage-os-lab retrieved with a repository, exit code 0:
\* "a" and "B" are reported although a mirror could exist, "graphql" is not
C17_Witness ==
    /\ PrimarySkipped /\ OtherRetrieved
    /\ ReportWritten
    /\ \E e \in 1..Len(orgDataMap) : Len(orgDataMap[e].nodes) > 0
    /\ "graphql" \in Names(magentoRepos)
    /\ SetOf(MirrorSections(artifact)[1].rows) = {"a", "B"}
    /\ WorkflowSections(artifact)[1].rows = <<>>

====
